---- MODULE Spec2Model ----
(***************************************************************************)
(* gowe: word-embedding stores (FloatModel, IntModel), the vector algebra  *)
(* behind Similarity, the quantization codec and the similarity ranking.   *)
(*                                                                         *)
(* Numbers.  A float scalar is modelled exactly as an integer count of     *)
(* units of 2^-FracBits (all values used are dyadic, so the float32 and    *)
(* float64 operations of the code are exact on them).  An integer scalar   *)
(* of an IntVector is an integer of the element width.  A similarity is    *)
(* the pair (d, p) standing for d / sqrt(p), or NaN.                       *)
(***************************************************************************)
EXTENDS Integers, Sequences, FiniteSets, TLC

VARIABLES
    width,      \* 0: the store is a FloatModel; 8, 16, 32: the element width of I
    conv,       \* what this build does on an out-of-range float->integer conversion
    dim,        \* m.dim
    vectors,    \* m.vectors: word -> vector
    loads,      \* number of bulk loads performed so far
    res         \* the last operation with its arguments and what it returned

vars == <<width, conv, dim, vectors, loads, res>>

----------------------------------------------------------------------------
(* Bounds of the model *)

FracBits == 2
MaxVal == 2
MaxLen == 2
MaxShift == 6
MaxMag == 5
MaxLoads == 2
MaxRankLoads == 1
MaxVocab == 3

Unit == 2 ^ FracBits

\* 0.25 in units
Quarter == Unit \div 4

----------------------------------------------------------------------------
(* Scalars *)

Abs(x) == IF x < 0 THEN -x ELSE x

\* Quotient truncated toward zero (b > 0); TLA+'s \div is the floor.
TruncDiv(a, b) == IF a < 0 THEN -((-a) \div b) ELSE a \div b

\* unsafe.Sizeof(precision)*8 for I in int8 | int16 | int32
IntScalar == {8, 16, 32}

MaxInt(w) == IF w = 32 THEN 2147483647 ELSE 2 ^ (w - 1) - 1
MinInt(w) == -MaxInt(w) - 1

InRange(w, t) == MinInt(w) <= t /\ t <= MaxInt(w)

\* Two's complement reduction of t to w bits (w < 32 in the model).
Wrap(w, t) == ((t - MinInt(w)) % (2 ^ w)) + MinInt(w)

Saturate(w, t) == IF t > MaxInt(w) THEN MaxInt(w) ELSE IF t < MinInt(w) THEN MinInt(w) ELSE t

Conversions == {"wrap", "sat"}

\* I(f) for a float f whose value truncated toward zero is t.  Go leaves the
\* result implementation-dependent when t does not fit I: the build either
\* keeps the low bits of a wider integer or saturates.
FloatToInt(w, t) ==
    IF InRange(w, t) THEN t
    ELSE IF conv = "wrap" THEN Wrap(w, t) ELSE Saturate(w, t)

\* uint8(f) for a float f with integer value c.
FloatToUint8(c) ==
    IF 0 <= c /\ c <= 255 THEN c
    ELSE IF conv = "wrap" THEN c % 256 ELSE IF c < 0 THEN 0 ELSE 255

----------------------------------------------------------------------------
(* Quantization codec, vectors.go *)

\* math.Ceil(math.Log2(x)) for a float x > 0 given in units: the least c with
\* 2^c >= x / Unit.
CeilLog2(x) ==
    CHOOSE c \in (-FracBits)..30 :
        /\ 2 ^ (c + FracBits) >= x
        /\ (c = -FracBits \/ 2 ^ (c - 1 + FracBits) < x)

\* uint8(math.Ceil(math.Log2(maxMagnitude))).  Log2 of 0 is -Inf and of a
\* negative number NaN; both convert to 0 on the builds modelled.
Uint8CeilLog2(maxMagnitude) ==
    IF maxMagnitude <= 0 THEN 0 ELSE FloatToUint8(CeilLog2(maxMagnitude))

\* A shift that reserves the sign bit only.
QuantizationShiftNoHeadroom(w, maxMagnitude) ==
    (w - Uint8CeilLog2(maxMagnitude) - 1) % 256

\* uint8 arithmetic: the differences are reduced modulo 2^8.
QuantizationShift(w, maxMagnitude) ==
    (w - Uint8CeilLog2(maxMagnitude) - 3) % 256

\* F(int64(1) << shift): a shift count of 64 or more gives 0.
Scale(shift) == IF shift >= 64 THEN 0 ELSE 2 ^ shift

\* A quantization that rounds to nearest.
QuantizeScalarRounded(w, x, shift) ==
    FloatToInt(w, IF x < 0 THEN -((2 * (-x) * Scale(shift) + Unit) \div (2 * Unit))
                  ELSE (2 * x * Scale(shift) + Unit) \div (2 * Unit))

\* The element of QuantizeFloatVector: I(v.scalars[i] * scale)
QuantizeScalar(w, x, shift) == FloatToInt(w, TruncDiv(x * Scale(shift), Unit))

QuantizeFloatVector(w, v, shift) ==
    [scalars |-> [i \in 1..Len(v.scalars) |-> QuantizeScalar(w, v.scalars[i], shift)],
     shift   |-> shift]

\* A shift that drops the fraction of the quotient toward zero.
ShiftRightToZero(x, s) ==
    IF s >= 31 THEN 0
    ELSE (x \div (2 ^ s)) + (IF x < 0 /\ x % (2 ^ s) # 0 THEN 1 ELSE 0)

\* v.scalars[i] >> v.shift on a signed integer: the floor of the quotient
\* (0 or -1 once the count reaches the width).
ShiftRight(x, s) == IF s >= 31 THEN (IF x < 0 THEN -1 ELSE 0) ELSE x \div (2 ^ s)

\* A dequantization that hands the stored integers back as they are.
DequantizeIntVectorUnshifted(v) ==
    [scalars |-> [i \in 1..Len(v.scalars) |-> v.scalars[i] * Unit]]

\* F(v.scalars[i] >> v.shift): an integer, handed back as a float.
DequantizeIntVector(v) ==
    [scalars |-> [i \in 1..Len(v.scalars) |-> ShiftRight(v.scalars[i], v.shift) * Unit]]

----------------------------------------------------------------------------
(* Vector algebra behind Similarity, vectors.go *)

RECURSIVE SumTo(_, _)
SumTo(f, n) == IF n = 0 THEN 0 ELSE f[n] + SumTo(f, n - 1)

NaN == [nan |-> TRUE, d |-> 0, p |-> 0]
Zero == [nan |-> FALSE, d |-> 0, p |-> 1]

\* The fused loop of FloatVector.CosineSimilarity and IntVector.CosineSimilarity.
\* The loop runs over the indices of v and reads u at each of them: a shorter
\* u is an index out of range (a panic), a longer u is read in part.  The
\* result d / math.Sqrt(mV * mU) is kept as the pair (d, mV * mU); 0 / 0 is NaN.
CosineSimilarity(v, u) ==
    LET n  == Len(v.scalars)
        d  == SumTo([i \in 1..n |-> v.scalars[i] * u.scalars[i]], n)
        mV == SumTo([i \in 1..n |-> v.scalars[i] * v.scalars[i]], n)
        mU == SumTo([i \in 1..n |-> u.scalars[i] * u.scalars[i]], n)
    IN  IF Len(u.scalars) < n THEN [panic |-> TRUE, sim |-> NaN]
        ELSE IF mV * mU = 0 THEN [panic |-> FALSE, sim |-> NaN]
        ELSE [panic |-> FALSE, sim |-> [nan |-> FALSE, d |-> d, p |-> mV * mU]]

RECURSIVE Gcd(_, _)
Gcd(a, b) == IF b = 0 THEN a ELSE Gcd(b, a % b)

\* The real number d / sqrt(p) as the signed fraction sgn(d) * d^2 / p in
\* lowest terms, which orders as the number does.
Key(x) ==
    LET g == Gcd(x.d * x.d, x.p)
    IN  [n |-> (IF x.d < 0 THEN -1 ELSE 1) * ((x.d * x.d) \div g), m |-> x.p \div g]

Less(x, y) == ~x.nan /\ ~y.nan /\ Key(x).n * Key(y).m < Key(y).n * Key(x).m

\* x >= y on float64: false as soon as one side is NaN.
Geq(x, y) == ~x.nan /\ ~y.nan /\ ~Less(x, y)

\* cmp.Compare(x, y): a NaN is less than any number and equal to a NaN.
Compare(x, y) ==
    IF x.nan /\ y.nan THEN 0
    ELSE IF x.nan THEN -1
    ELSE IF y.nan THEN 1
    ELSE IF Less(x, y) THEN -1
    ELSE IF Less(y, x) THEN 1 ELSE 0

----------------------------------------------------------------------------
(* Fixed-point vector algebra, IntVector in vectors.go *)

\* The 32-bit vectors of the model hold multiples of 2^26 (26 grain bits), so
\* that a product of two elements is a count of units of 2^52 and the 64-bit
\* accumulator has 11 bits above the unit.  8- and 16-bit vectors hold any
\* value of their type and their products are counted in ones.
GrainBits(w) == IF w = 32 THEN 26 ELSE 0
Grain(w) == 2 ^ GrainBits(w)

\* Two's complement reduction to w bits of a number t of grains.
WrapGrains(w, t) ==
    LET m  == 2 ^ (w - GrainBits(w))
        lo == -(m \div 2)
    IN  ((t - lo) % m) + lo

\* An addition that stops at the ends of the type.
ElementSumSaturated(w, a, b) ==
    LET t  == (a \div Grain(w)) + (b \div Grain(w))
        hi == 2 ^ (w - GrainBits(w) - 1) - 1
    IN  (IF t > hi THEN hi ELSE IF t < -hi - 1 THEN -hi - 1 ELSE t) * Grain(w)

\* v.scalars[i] + u.scalars[i] in type I
ElementSum(w, a, b) ==
    WrapGrains(w, (a \div Grain(w)) + (b \div Grain(w))) * Grain(w)

\* v.scalars[i] - u.scalars[i] in type I
ElementDifference(w, a, b) ==
    WrapGrains(w, (a \div Grain(w)) - (b \div Grain(w))) * Grain(w)

\* IntVector.Add: the loop runs over the indices of v and reads u at each of
\* them, so a shorter u is an index out of range; the result carries v.shift.
IntAdd(w, v, u) ==
    IF Len(u.scalars) < Len(v.scalars) THEN [panic |-> TRUE]
    ELSE [panic   |-> FALSE,
          scalars |-> [i \in 1..Len(v.scalars) |->
                          ElementSum(w, v.scalars[i], u.scalars[i])],
          shift   |-> v.shift]

\* IntVector.Subtract
IntSubtract(w, v, u) ==
    IF Len(u.scalars) < Len(v.scalars) THEN [panic |-> TRUE]
    ELSE [panic   |-> FALSE,
          scalars |-> [i \in 1..Len(v.scalars) |->
                          ElementDifference(w, v.scalars[i], u.scalars[i])],
          shift   |-> v.shift]

\* int64(a) * int64(b), in units of 2^(2 * GrainBits(w)).
Product(w, a, b) == (a \div Grain(w)) * (b \div Grain(w))

\* The bits of an int64 above the unit, sign excluded.
AccBits(w) == 63 - 2 * GrainBits(w)

\* t units fit an int64 (every count the model can write is below 2^31).
FitsInt64(w, t) ==
    AccBits(w) >= 31 \/ (-(2 ^ AccBits(w)) <= t /\ t < 2 ^ AccBits(w))

\* The int64 that holds the low 64 bits of t units.
WrapInt64(w, t) ==
    IF AccBits(w) >= 31 THEN t
    ELSE ((t + 2 ^ AccBits(w)) % (2 ^ (AccBits(w) + 1))) - 2 ^ AccBits(w)

\* w += ... over the first n terms of f, in int64.
RECURSIVE Accumulate(_, _, _)
Accumulate(w, f, n) ==
    IF n = 0 THEN 0 ELSE WrapInt64(w, Accumulate(w, f, n - 1) + f[n])

\* float64(int64(1) << s) for a uint8 count s: 2^s, -2^63 at 63, 0 from 64 on.
ScaleSign(s) == IF s >= 64 THEN "zero" ELSE IF s = 63 THEN "negative" ELSE "positive"

\* IntVector.Dot: float64(w) / scale with scale the float of
\* int64(1) << (v.shift + u.shift), the sum taken in uint8.  The result is kept
\* as the accumulator (in units of 2^unit), the count of the shift and the
\* sign of the scale: it stands for w * 2^unit / 2^shift when the scale is
\* positive, for the opposite when it is -2^63, and for +Inf, -Inf or NaN when
\* the scale is 0.
IntDot(w, v, u) ==
    LET n == Len(v.scalars)
    IN  [w     |-> Accumulate(w, [i \in 1..n |->
                       Product(w, v.scalars[i], u.scalars[i])], n),
         unit  |-> 2 * GrainBits(w),
         shift |-> (v.shift + u.shift) % 256,
         scale |-> ScaleSign((v.shift + u.shift) % 256)]

\* IntVector.Magnitude: math.Sqrt(float64(m) / scale) with scale the float of
\* int64(1) << (v.shift * 2), kept as for Dot.
IntMagnitude(w, v) ==
    LET n == Len(v.scalars)
    IN  [m     |-> Accumulate(w, [i \in 1..n |->
                       Product(w, v.scalars[i], v.scalars[i])], n),
         unit  |-> 2 * GrainBits(w),
         shift |-> (v.shift * 2) % 256,
         scale |-> ScaleSign((v.shift * 2) % 256)]

\* IntVector.CosineSimilarity: d, mV and mU accumulate in int64 in one loop,
\* the result is float64(d) / math.Sqrt(float64(mV) * float64(mU)): NaN when
\* the product is negative or 0 / 0, an infinity for d / 0, else the number
\* d / sqrt(p).
IntCosineSimilarity(w, v, u) ==
    LET n  == Len(v.scalars)
        d  == Accumulate(w, [i \in 1..n |-> Product(w, v.scalars[i], u.scalars[i])], n)
        mV == Accumulate(w, [i \in 1..n |-> Product(w, v.scalars[i], v.scalars[i])], n)
        mU == Accumulate(w, [i \in 1..n |-> Product(w, u.scalars[i], u.scalars[i])], n)
        p  == mV * mU
    IN  [kind |-> IF p < 0 \/ (p = 0 /\ d = 0) THEN "nan"
                  ELSE IF p = 0 THEN "inf" ELSE "num",
         d |-> d, mV |-> mV, mU |-> mU, p |-> p]

\* The integer part of the square root of x >= 0.
RECURSIVE ISqrt(_)
ISqrt(x) ==
    IF x < 2 THEN x
    ELSE LET r == 2 * ISqrt(x \div 4)
         IN  IF r + 1 <= x \div (r + 1) THEN r + 1 ELSE r

\* I(f / m * 2^k) for an integer f and m = sqrt(M): k bits of the quotient,
\* truncated toward zero.
NormalizedScalar(k, f, M) ==
    IF f = 0 THEN 0
    ELSE IF f * f = M THEN (IF f < 0 THEN -1 ELSE 1) * 2 ^ k
    ELSE (IF f < 0 THEN -1 ELSE 1) * ISqrt((f * f * 4 ^ k) \div M)

\* The arithmetic of NormalizedScalar stays below 2^31.
Representable(k, f, M) ==
    \/ f = 0
    \/ (Abs(f) < 2 ^ 15 /\ f * f = M)
    \/ (k <= 13 /\ Abs(f) < 2 ^ 15 /\ f * f <= 2147483647 \div (4 ^ k))

\* I(NaN): the conversion of a NaN is implementation-dependent.  Builds give
\* 0, or the low bits of the least 32- or 64-bit integer: the least int32, and
\* 0 for the narrower types.
NaNToInt(w) == IF w = 32 THEN {0, MinInt(32)} ELSE {0}

\* IntVector.Normalize: DequantizeIntVector[float64](v), FloatVector.Normalize
\* (each element divided by the magnitude, with no test for 0: 0 / 0 is NaN),
\* then QuantizeFloatVector at shift Sizeof * 8 - 3.  nan is what this build
\* converts a NaN to.
IntNormalize(w, v, nan) ==
    LET n == Len(v.scalars)
        f == [i \in 1..n |-> DequantizeIntVector(v).scalars[i] \div Unit]
        M == SumTo([i \in 1..n |-> f[i] * f[i]], n)
    IN  [scalars |-> [i \in 1..n |->
                        IF M = 0 THEN nan ELSE NormalizedScalar(w - 3, f[i], M)],
         shift   |-> w - 3]

----------------------------------------------------------------------------
(* The stores, floatmodel.go and intmodel.go *)

NoVectors == [w \in {} |-> 0]

\* An insertion that keeps the entry a word already has.
PutIfAbsent(vecs, word, v) == vecs @@ (word :> v)

\* m.vectors[word] = &vector
Put(vecs, word, v) == (word :> v) @@ vecs

\* A lookup that sizes the zero vector by the vocabulary.
VectorOfVocabularySize(m, s) ==
    IF s \notin DOMAIN m.vectors THEN [i \in 1..Cardinality(DOMAIN m.vectors) |-> 0]
    ELSE m.vectors[s].scalars

\* FloatModel.Vector, IntModel.Vector
Vector(m, s) ==
    IF s \notin DOMAIN m.vectors THEN [i \in 1..m.dim |-> 0]
    ELSE m.vectors[s].scalars

Dimensions(m) == m.dim

VocabularySize(m) == Cardinality(DOMAIN m.vectors)

\* A Similarity that scores the looked-up vectors, zero vector included.
SimilarityOfVectors(m, s, t) ==
    CosineSimilarity([scalars |-> Vector(m, s)], [scalars |-> Vector(m, t)])

\* FloatModel.Similarity, IntModel.Similarity
Similarity(m, s, t) ==
    IF s \notin DOMAIN m.vectors THEN [panic |-> FALSE, sim |-> Zero]
    ELSE IF t \notin DOMAIN m.vectors THEN [panic |-> FALSE, sim |-> Zero]
    ELSE CosineSimilarity(m.vectors[s], m.vectors[t])

----------------------------------------------------------------------------
(* Files.  A file is a sequence of newline-terminated lines, a line a       *)
(* non-empty sequence of tokens separated by single spaces.                 *)

\* A token: its text, whether strconv.ParseFloat accepts it and with what
\* value (in units), and whether fmt.Fscanln accepts it for a uint.
Word(s) == [s |-> s, num |-> FALSE, val |-> 0, uint |-> FALSE]
Num(s, v) == [s |-> s, num |-> TRUE, val |-> v, uint |-> FALSE]
Uint(s, n) == [s |-> s, num |-> TRUE, val |-> n * Unit, uint |-> TRUE]

Cat10 == <<Word("cat"), Uint("1", 1), Uint("0", 0)>>
Cat11 == <<Word("cat"), Uint("1", 1), Uint("1", 1)>>
Cat2 == <<Word("cat"), Uint("2", 2)>>
Dog11 == <<Word("dog"), Uint("1", 1), Uint("1", 1)>>
DogNeg == <<Word("dog"), Num("-1", -Unit), Num("0.25", Unit \div 4)>>
DogBad == <<Word("dog"), Word("x"), Uint("1", 1)>>
Dog1 == <<Word("dog"), Uint("1", 1)>>
Road00 == <<Word("road"), Uint("0", 0), Uint("0", 0)>>
Road01 == <<Word("road"), Uint("0", 0), Uint("1", 1)>>
Header22 == <<Uint("2", 2), Uint("2", 2)>>
Fish == <<Word("fish")>>

\* The files on disk: a plain vocabulary with a zero vector, one with a
\* description line, one of another dimension, one with a token that is not
\* a number, one with a record of the wrong length, a line without values,
\* an empty file, and a path that does not exist.
Contents ==
    { <<Cat10, Dog11, Road00>>,
      <<Header22, Cat11, DogNeg>>,
      <<Cat2, Dog1>>,
      <<Road01, DogBad, Cat10>>,
      <<Dog11, Cat2, Road01>>,
      <<Fish>>,
      <<>> }

Files == { [exists |-> FALSE, lines |-> <<>>] }
         \cup { [exists |-> TRUE, lines |-> l] : l \in Contents }

\* A file with a line that holds a word and no value between two records, and
\* the same after a description line.
WordOnlyFiles ==
    { [exists |-> TRUE, lines |-> <<Cat10, Fish, Dog11>>],
      [exists |-> TRUE, lines |-> <<Header22, Cat11, Fish, Road01>>] }

\* A file that holds a word twice.
DuplicateWordFiles ==
    { [exists |-> TRUE, lines |-> <<Cat10, Dog11, Cat11>>] }

\* A binary file: the description line, then for each record the word, a
\* space and the values the file holds for it.  Every record holds as many
\* values as the description says, the last one possibly fewer (the file
\* ends inside it).  The values are in the float width the caller names.
Rec(word, vals) == [word |-> word, vals |-> vals]

Header21 == <<Uint("2", 2), Uint("1", 1)>>
Header2 == <<Uint("2", 2)>>

BinaryContents ==
    { [lines |-> <<Header22>>,
       records |-> <<Rec("cat", <<Unit, 0>>), Rec("dog", <<Unit, Unit>>)>>],
      [lines |-> <<Header22>>,
       records |-> <<Rec("cat", <<Unit, Unit>>), Rec("road", <<Unit>>)>>],
      [lines |-> <<Header21>>,
       records |-> <<Rec("cat", <<2 * Unit>>), Rec("dog", <<-Unit>>)>>],
      [lines |-> <<Header2>>,
       records |-> <<Rec("cat", <<Unit, 0>>)>>],
      [lines |-> <<>>, records |-> <<>>] }

BinaryFiles ==
    { [exists |-> FALSE, lines |-> <<>>, records |-> <<>>] }
        \cup { [exists |-> TRUE, lines |-> b.lines, records |-> b.records] :
                   b \in BinaryContents }

BitSizes == {32, 64}

\* The variadic opts: each is a float64 (with its value in units) or not.
Float64(x) == [float64 |-> TRUE, val |-> x]
Opts == { <<>>, <<Float64(2 * Unit)>>, <<Float64(16 * Unit)>>, <<Float64(0)>>,
          <<[float64 |-> FALSE, val |-> 5]>> }

----------------------------------------------------------------------------
(* Bulk load from plaintext *)

\* A record stored at a shift derived from its own largest magnitude.
StoredAtOwnShift(w, vals, quantShift) ==
    IF w = 0 THEN [scalars |-> vals]
    ELSE LET mags == {Abs(vals[i]) : i \in 1..Len(vals)} \cup {Quarter}
             own  == CHOOSE x \in mags : \A y \in mags : y <= x
         IN  QuantizeFloatVector(w, [scalars |-> vals], QuantizationShift(w, own))

\* The vector a record's values give: FloatVector[F]{scalars: vector} in
\* readPlainVector, QuantizeFloatVector[I](..., quantShift) in
\* plainLineToIntModel.
Stored(w, vals, quantShift) ==
    IF w = 0 THEN [scalars |-> vals]
    ELSE QuantizeFloatVector(w, [scalars |-> vals], quantShift)

\* The loop over readPlainVector / plainLineToIntModel.  br.ReadString(' ')
\* takes everything up to the next space as the word, so a line of one token
\* runs into the next line; at the end of the file it ends the load without
\* an error.  The rest of the line must have m.dim values, each a float.
RECURSIVE ReadRecords(_, _, _, _, _, _)
ReadRecords(w, d, vecs, quantShift, lines, prefix) ==
    IF lines = <<>> THEN [vectors |-> vecs, err |-> FALSE]
    ELSE LET line   == Head(lines)
             word   == prefix \o line[1].s
             splits == Tail(line)
             vals   == [i \in 1..Len(splits) |-> splits[i].val]
         IN  IF Len(line) = 1
                 THEN ReadRecords(w, d, vecs, quantShift, Tail(lines), word \o "\n")
             ELSE IF Len(splits) # d THEN [vectors |-> vecs, err |-> TRUE]
             ELSE IF \E i \in 1..Len(splits) : ~splits[i].num
                 THEN [vectors |-> vecs, err |-> TRUE]
             ELSE ReadRecords(w, d, Put(vecs, word, Stored(w, vals, quantShift)),
                              quantShift, Tail(lines), "")

\* fmt.Fscanln(file, &size, &dim): n operands scanned, and an error unless
\* the line is exactly two unsigned integers.
Fscanln(lines) ==
    IF lines = <<>> THEN [n |-> 0, err |-> TRUE, dim |-> 0]
    ELSE LET line == Head(lines)
         IN  IF ~line[1].uint THEN [n |-> 0, err |-> TRUE, dim |-> 0]
             ELSE IF Len(line) = 1 \/ ~line[2].uint THEN [n |-> 1, err |-> TRUE, dim |-> 0]
             ELSE [n |-> 2, err |-> Len(line) > 2, dim |-> line[2].val \div Unit]

Failed(m) == [dim |-> m.dim, vectors |-> m.vectors, err |-> TRUE]

\* The body shared by the two FromPlainFile, from os.Open on.  minN is the
\* least operand count the description check lets through: n < 2 fails in
\* FloatModel, n <= 2 in IntModel.
PlainFile(w, m, file, desc, quantShift, minN) ==
    IF ~file.exists THEN Failed(m)
    ELSE IF desc
        THEN LET sc == Fscanln(file.lines)
             IN  IF sc.err THEN Failed(m)
                 ELSE IF sc.n < minN THEN Failed(m)
                 ELSE LET r == ReadRecords(w, sc.dim, m.vectors, quantShift,
                                           Tail(file.lines), "")
                      IN  [dim |-> sc.dim, vectors |-> r.vectors, err |-> r.err]
    ELSE IF file.lines = <<>> THEN Failed(m)
    ELSE LET d == Len(Head(file.lines)) - 1
         IN  IF d = 0 THEN [dim |-> 0, vectors |-> m.vectors, err |-> TRUE]
             ELSE LET r == ReadRecords(w, d, m.vectors, quantShift, file.lines, "")
                  IN  [dim |-> d, vectors |-> r.vectors, err |-> r.err]

\* FloatModel.FromPlainFile: the opts are ignored.
FloatFromPlainFile(m, file, desc, opts) == PlainFile(0, m, file, desc, 0, 2)

\* A fixed-point load that falls back to a bound of 1.0 without a usable opt.
IntFromPlainFileDefault(w, m, file, desc, opts) ==
    PlainFile(w, m, file, desc,
              QuantizationShift(w, IF Len(opts) = 1 /\ opts[1].float64
                                       THEN opts[1].val ELSE Unit), 3)

\* IntModel.FromPlainFile
IntFromPlainFile(w, m, file, desc, opts) ==
    IF Len(opts) # 1 THEN Failed(m)
    ELSE IF ~opts[1].float64 THEN Failed(m)
    ELSE PlainFile(w, m, file, desc, QuantizationShift(w, opts[1].val), 3)

FromPlainFile(w, m, file, desc, opts) ==
    IF w = 0 THEN FloatFromPlainFile(m, file, desc, opts)
    ELSE IntFromPlainFile(w, m, file, desc, opts)

----------------------------------------------------------------------------
(* Bulk load from binary *)

\* The loop over readBinaryVector / readFloat32BinaryVector and their
\* variants: the word up to the next space, then m.dim values.  At the end of
\* the file the loop ends; a record with fewer bytes than m.dim values makes
\* binary.Read fail, which ends the loop with err set.
RECURSIVE ReadBinaryRecords(_, _, _, _, _)
ReadBinaryRecords(w, d, vecs, quantShift, records) ==
    IF records = <<>> THEN [vectors |-> vecs, err |-> FALSE]
    ELSE LET rec == Head(records)
         IN  IF Len(rec.vals) < d THEN [vectors |-> vecs, err |-> TRUE]
             ELSE ReadBinaryRecords(w, d,
                      Put(vecs, rec.word, Stored(w, SubSeq(rec.vals, 1, d), quantShift)),
                      quantShift, Tail(records))

\* The body shared by the two FromBinaryFile, from os.Open on.  The loops
\* leave on an error of a record with break, and the function returns nil.
BinaryFile(w, m, file, bitSize, quantShift) ==
    IF ~file.exists THEN Failed(m)
    ELSE LET sc == Fscanln(file.lines)
         IN  IF sc.err THEN Failed(m)
             ELSE IF sc.n < 2 THEN Failed(m)
             ELSE LET r == ReadBinaryRecords(w, sc.dim, m.vectors, quantShift,
                                             file.records)
                  IN  [dim |-> sc.dim, vectors |-> r.vectors, err |-> FALSE]

\* FloatModel.FromBinaryFile: the opts are ignored.
FloatFromBinaryFile(m, file, bitSize, opts) == BinaryFile(0, m, file, bitSize, 0)

\* IntModel.FromBinaryFile
IntFromBinaryFile(w, m, file, bitSize, opts) ==
    IF Len(opts) # 1 THEN Failed(m)
    ELSE IF ~opts[1].float64 THEN Failed(m)
    ELSE BinaryFile(w, m, file, bitSize, QuantizationShift(w, opts[1].val))

FromBinaryFile(w, m, file, bitSize, opts) ==
    IF w = 0 THEN FloatFromBinaryFile(m, file, bitSize, opts)
    ELSE IntFromBinaryFile(w, m, file, bitSize, opts)

----------------------------------------------------------------------------
(* Similarity ranking, gowe.go *)

Swap(data, i, j) == [data EXCEPT ![i] = data[j], ![j] = data[i]]

\* The comparison with its arguments the other way round.
Ascending(a, b) == Compare(a.similarity, b.similarity)

\* The comparison RankSimilarity hands to slices.SortFunc.
Descending(a, b) == Compare(b.similarity, a.similarity)

\* slices.SortFunc on a slice of at most 12 elements is the insertion sort
\* of the standard library: element i moves down while cmp(data[j], data[j-1]) < 0.
RECURSIVE MoveDown(_, _)
MoveDown(data, j) ==
    IF j > 1 /\ Descending(data[j], data[j - 1]) < 0
        THEN MoveDown(Swap(data, j, j - 1), j - 1)
        ELSE data

RECURSIVE SortFrom(_, _)
SortFrom(data, i) ==
    IF i > Len(data) THEN data ELSE SortFrom(MoveDown(data, i), i + 1)

SortFunc(data) == SortFrom(data, 2)

\* A RankSimilarity that ranks only the candidates the store knows.
RankSimilarityKnown(m, s, vocab) ==
    LET known == SelectSeq(vocab, LAMBDA x : x \in DOMAIN m.vectors)
        sims == [i \in 1..Len(known) |-> Similarity(m, s, known[i])]
        relativeWords == [i \in 1..Len(known) |->
                             [word |-> known[i], similarity |-> sims[i].sim]]
        sorted == SortFunc(relativeWords)
    IN  IF \E i \in 1..Len(known) : sims[i].panic
            THEN [panic |-> TRUE, out |-> <<>>]
            ELSE [panic |-> FALSE, out |-> [i \in 1..Len(known) |-> sorted[i].word]]

RankSimilarity(m, s, vocab) ==
    LET sims == [i \in 1..Len(vocab) |-> Similarity(m, s, vocab[i])]
        relativeWords == [i \in 1..Len(vocab) |->
                             [word |-> vocab[i], similarity |-> sims[i].sim]]
        sorted == SortFunc(relativeWords)
    IN  IF \E i \in 1..Len(vocab) : sims[i].panic
            THEN [panic |-> TRUE, out |-> <<>>]
            ELSE [panic |-> FALSE, out |-> [i \in 1..Len(vocab) |-> sorted[i].word]]

\* An NNearestIn that takes n = len(vocab) for out of range.
NNearestInStrict(m, s, vocab, n) ==
    IF n = 0 THEN [err |-> TRUE, panic |-> FALSE, out |-> <<>>]
    ELSE IF n >= Len(vocab) THEN [err |-> TRUE, panic |-> FALSE, out |-> <<>>]
    ELSE LET r == RankSimilarity(m, s, vocab)
         IN  [err |-> FALSE, panic |-> r.panic,
              out |-> IF r.panic THEN <<>> ELSE SubSeq(r.out, 1, n)]

\* An NNearestIn that slices the ranking from the far end.
NNearestInTail(m, s, vocab, n) ==
    IF n = 0 THEN [err |-> TRUE, panic |-> FALSE, out |-> <<>>]
    ELSE IF n > Len(vocab) THEN [err |-> TRUE, panic |-> FALSE, out |-> <<>>]
    ELSE LET r == RankSimilarity(m, s, vocab)
         IN  [err |-> FALSE, panic |-> r.panic,
              out |-> IF r.panic THEN <<>>
                      ELSE SubSeq(r.out, Len(vocab) - n + 1, Len(vocab))]

NNearestIn(m, s, vocab, n) ==
    IF n = 0 THEN [err |-> TRUE, panic |-> FALSE, out |-> <<>>]
    ELSE IF n > Len(vocab) THEN [err |-> TRUE, panic |-> FALSE, out |-> <<>>]
    ELSE LET r == RankSimilarity(m, s, vocab)
         IN  [err |-> FALSE, panic |-> r.panic,
              out |-> IF r.panic THEN <<>> ELSE SubSeq(r.out, 1, n)]

----------------------------------------------------------------------------
(* The store as a state machine *)

QueryWords == {"cat", "dog", "road", "fish"}

SeqsUpTo(S, n) == UNION { [1..k -> S] : k \in 0..n }

\* The words of candidate lists: a word that is loaded, one that is loaded
\* as the zero vector by some files, and one that no file holds.
CandidateWords == {"dog", "road", "fish"}

Vocabs == SeqsUpTo(CandidateWords, MaxVocab)

\* The query words of a ranking: a word that is loaded, one that is loaded
\* as the zero vector by some files, and one that no file holds.
RankQueries == {"cat", "road", "fish"}

model == [dim |-> dim, vectors |-> vectors]

\* No call is under way: the caller is between two calls.
Idle == [op |-> "Idle"]

\* A FloatModel converts no float to an integer: only the builds of an
\* IntModel differ.
Builds(w) == IF w = 0 THEN {"none"} ELSE Conversions

\* NewFloatModel, NewIntModel
Init ==
    /\ width \in {0, 8}
    /\ conv \in Builds(width)
    /\ dim = 0
    /\ vectors = NoVectors
    /\ loads = 0
    /\ res = Idle

\* A load from one of the given files, on a store loaded fewer than maxLoads
\* times.  The result keeps the arguments and the store as it was before.
FromPlainFileUpTo(files, maxLoads) ==
    /\ res = Idle
    /\ loads < maxLoads
    /\ \E file \in files, desc \in BOOLEAN, opts \in Opts :
        LET r == FromPlainFile(width, model, file, desc, opts)
        IN  /\ dim' = r.dim
            /\ vectors' = r.vectors
            /\ res' = [op |-> "FromPlainFile", file |-> file, desc |-> desc,
                        opts |-> opts, before |-> model, err |-> r.err]
    /\ loads' = loads + 1
    /\ UNCHANGED <<width, conv>>

DoFromPlainFile ==
    FromPlainFileUpTo(Files \cup WordOnlyFiles \cup DuplicateWordFiles, MaxLoads)

DoFromBinaryFile ==
    /\ res = Idle
    /\ loads < MaxLoads
    /\ \E file \in BinaryFiles, bitSize \in BitSizes, opts \in Opts :
        LET r == FromBinaryFile(width, model, file, bitSize, opts)
        IN  /\ dim' = r.dim
            /\ vectors' = r.vectors
            /\ res' = [op |-> "FromBinaryFile", file |-> file, bitSize |-> bitSize,
                        opts |-> opts, before |-> model, err |-> r.err]
    /\ loads' = loads + 1
    /\ UNCHANGED <<width, conv>>

\* A lookup that enters the zero vector under a word it does not find.
DoVectorInserting ==
    /\ res = Idle
    /\ \E s \in QueryWords :
        /\ res' = [op |-> "Vector", s |-> s, out |-> Vector(model, s)]
        /\ vectors' = IF s \in DOMAIN vectors THEN vectors
                       ELSE Put(vectors, s, [scalars |-> Vector(model, s)])
    /\ UNCHANGED <<width, conv, dim, loads>>

DoVector ==
    /\ res = Idle
    /\ \E s \in QueryWords :
        res' = [op |-> "Vector", s |-> s, out |-> Vector(model, s)]
    /\ UNCHANGED <<width, conv, dim, vectors, loads>>

DoDimensions ==
    /\ res = Idle
    /\ res' = [op |-> "Dimensions", out |-> Dimensions(model)]
    /\ UNCHANGED <<width, conv, dim, vectors, loads>>

DoVocabularySize ==
    /\ res = Idle
    /\ res' = [op |-> "VocabularySize", out |-> VocabularySize(model)]
    /\ UNCHANGED <<width, conv, dim, vectors, loads>>

DoSimilarity ==
    /\ res = Idle
    /\ \E s \in QueryWords, t \in QueryWords :
        LET r == Similarity(model, s, t)
        IN  res' = [op |-> "Similarity", s |-> s, t |-> t,
                    panic |-> r.panic, out |-> r.sim]
    /\ UNCHANGED <<width, conv, dim, vectors, loads>>

\* vocab is the argument of the call and list the caller's slice after it:
\* RankSimilarity sorts relativeWords, a slice of its own, and NNearestIn
\* returns a part of the ranking; neither writes to vocab.
DoRankSimilarity ==
    /\ res = Idle
    /\ \E s \in RankQueries, vocab \in Vocabs :
        LET r == RankSimilarity(model, s, vocab)
        IN  res' = [op |-> "RankSimilarity", s |-> s, vocab |-> vocab,
                    list |-> vocab, panic |-> r.panic, out |-> r.out]
    /\ UNCHANGED <<width, conv, dim, vectors, loads>>

DoNNearestIn ==
    /\ res = Idle
    /\ \E s \in RankQueries, vocab \in Vocabs : \E n \in 0..(Len(vocab) + 1) :
        LET r == NNearestIn(model, s, vocab, n)
        IN  res' = [op |-> "NNearestIn", s |-> s, vocab |-> vocab, n |-> n,
                    list |-> vocab, err |-> r.err, panic |-> r.panic, out |-> r.out]
    /\ UNCHANGED <<width, conv, dim, vectors, loads>>

\* The caller takes the result of the call.
Return ==
    /\ res # Idle
    /\ res' = Idle
    /\ UNCHANGED <<width, conv, dim, vectors, loads>>

Next ==
    \/ DoFromPlainFile
    \/ DoFromBinaryFile
    \/ DoVector
    \/ DoDimensions
    \/ DoVocabularySize
    \/ DoSimilarity
    \/ Return

Spec == Init /\ [][Next]_vars

----------------------------------------------------------------------------
(* Ranking over a loaded store *)

DoFromPlainFileToRank == FromPlainFileUpTo(Files, MaxRankLoads)

NextRank ==
    \/ DoFromPlainFileToRank
    \/ DoVector
    \/ DoDimensions
    \/ DoVocabularySize
    \/ DoSimilarity
    \/ DoRankSimilarity
    \/ DoNNearestIn
    \/ Return

SpecRank == Init /\ [][NextRank]_vars

----------------------------------------------------------------------------
(* A caller that writes into what Vector returned *)

\* The scalar the caller writes, at the first index.
Written == Unit

\* m.vectors[s].scalars is the slice of the store itself, make([]T, m.dim) a
\* fresh one: an assignment to an element of the first changes the entry of
\* the store, an assignment to an element of the second changes nothing.
DoWriteReturned ==
    /\ res.op = "Vector"
    /\ Len(res.out) > 0
    /\ vectors' = IF res.s \in DOMAIN vectors
                      THEN [vectors EXCEPT ![res.s].scalars[1] = Written]
                      ELSE vectors
    /\ res' = [op |-> "Write", s |-> res.s, held |-> res.out, before |-> model]
    /\ UNCHANGED <<width, conv, dim, loads>>

NextAlias ==
    \/ DoFromPlainFileToRank
    \/ DoVector
    \/ DoWriteReturned
    \/ DoSimilarity
    \/ Return

SpecAlias == Init /\ [][NextAlias]_vars

----------------------------------------------------------------------------
(* The codec applied to inputs of the caller's choice *)

\* Quarter steps from -MaxVal to MaxVal.
FloatVals == {k * Quarter : k \in (-4 * MaxVal)..(4 * MaxVal)}

\* The vector of TestQuantization: [5, 1, -9, 12]
TestVector == <<5 * Unit, Unit, -9 * Unit, 12 * Unit>>

FloatVectors == SeqsUpTo(FloatVals, MaxLen) \cup {TestVector}

\* Shift arguments: the small ones and the 15 of TestQuantization.
Shifts == (0..MaxShift) \cup {15}

\* Maximum magnitudes: 0.25, 0.5, 0.75, 1.5, the integers 1 .. MaxMag, and
\* 15.0 and 64.0.
Mags == {Quarter, 2 * Quarter, 3 * Quarter, 6 * Quarter}
            \cup {k * Unit : k \in 1..MaxMag}
            \cup {15 * Unit, 64 * Unit}

InitQuant ==
    /\ width \in {8, 16}
    /\ conv \in Conversions
    /\ dim = 0
    /\ vectors = NoVectors
    /\ loads = 0
    /\ res = Idle

DoQuantizationShift ==
    /\ res = Idle
    /\ \E w \in IntScalar, maxMagnitude \in Mags :
        res' = [op |-> "QuantizationShift", w |-> w, maxMagnitude |-> maxMagnitude,
                out |-> QuantizationShift(w, maxMagnitude)]
    /\ UNCHANGED <<width, conv, dim, vectors, loads>>

DoQuantizeFloatVector ==
    /\ res = Idle
    /\ \E v \in FloatVectors, shift \in Shifts :
        res' = [op |-> "QuantizeFloatVector", w |-> width, v |-> v, shift |-> shift,
                out |-> QuantizeFloatVector(width, [scalars |-> v], shift)]
    /\ UNCHANGED <<width, conv, dim, vectors, loads>>

\* Quantize at the shift derived from maxMagnitude, then dequantize.
DoQuantizeDequantize ==
    /\ res = Idle
    /\ \E v \in FloatVectors, maxMagnitude \in Mags :
        LET shift == QuantizationShift(width, maxMagnitude)
            q     == QuantizeFloatVector(width, [scalars |-> v], shift)
        IN  res' = [op |-> "QuantizeDequantize", w |-> width, v |-> v,
                    maxMagnitude |-> maxMagnitude, shift |-> shift, q |-> q,
                    out |-> DequantizeIntVector(q).scalars]
    /\ UNCHANGED <<width, conv, dim, vectors, loads>>

\* Quantize at a shift of the caller's choice, then dequantize.
DoRoundTrip ==
    /\ res = Idle
    /\ \E v \in FloatVectors, shift \in Shifts :
        LET q == QuantizeFloatVector(width, [scalars |-> v], shift)
        IN  res' = [op |-> "RoundTrip", w |-> width, v |-> v, shift |-> shift,
                    q |-> q, out |-> DequantizeIntVector(q).scalars]
    /\ UNCHANGED <<width, conv, dim, vectors, loads>>

NextQuant ==
    \/ DoQuantizationShift
    \/ DoQuantizeFloatVector
    \/ DoQuantizeDequantize
    \/ DoRoundTrip
    \/ Return

SpecQuant == InitQuant /\ [][NextQuant]_vars

----------------------------------------------------------------------------
(* The fixed-point vector algebra on its own: IntVector values built by the *)
(* caller, as the tests of the package build them                           *)

\* Element values: small ones, the 3 << 5 and 4 << 5 of TestIntVectors, values
\* near the ends of int8, and for int32 the least value, -2^30, -2^26 and 2^30.
IntVals(w) ==
    IF w = 8 THEN {-100, -3, 0, 3, 100}
    ELSE IF w = 16 THEN {-3, 0, 3, 96, 128}
    ELSE {g * Grain(32) : g \in {-32, -16, -1, 0, 16}}

\* Element values of the second operand.
OperandVals(w) ==
    IF w = 8 THEN {-3, 6, 100}
    ELSE IF w = 16 THEN {-6, -3, 5}
    ELSE {g * Grain(32) : g \in {-32, -16, 16}}

\* Shifts of the receiver: none, 1, the 5 of TestIntVectors, and 32, which
\* QuantizationShift gives int32 for a maximum magnitude of 0.125.
IntShifts == {0, 1, 5, 32}

\* The second operand is stored at the receiver's shift or at 31
\* (QuantizationShift of int32 for a maximum magnitude of 0.25).
OperandShifts(v) == {v.shift, 31}

NonEmptySeqs(S, n) == UNION { [1..k -> S] : k \in 1..n }

IntVectors(w) ==
    { [scalars |-> sc, shift |-> sh] :
          sc \in NonEmptySeqs(IntVals(w), MaxLen), sh \in IntShifts }

\* Second operands of any length.
Operands(w, v) ==
    { [scalars |-> sc, shift |-> sh] :
          sc \in NonEmptySeqs(OperandVals(w), MaxLen), sh \in OperandShifts(v) }

\* Second operands of the receiver's length.
EqualOperands(w, v) ==
    { u \in Operands(w, v) : Len(u.scalars) = Len(v.scalars) }

\* For Dot, the {-4 << 5, 5 << 5} of TestIntVectors for its receiver as well.
DotOperands(w, v) ==
    EqualOperands(w, v)
        \cup (IF w = 16 /\ v = [scalars |-> <<96, 128>>, shift |-> 5]
               THEN {[scalars |-> <<-128, 160>>, shift |-> 5]} ELSE {})

\* v with every element multiplied by 2^k.
Rescaled(v, k) ==
    [scalars |-> [i \in 1..Len(v.scalars) |-> v.scalars[i] * 2 ^ k],
     shift   |-> v.shift]

\* The elements of v times 2^k are values of the element type.
Rescalable(w, v, k) ==
    \A i \in 1..Len(v.scalars) :
        /\ Abs(v.scalars[i] \div Grain(w)) * 2 ^ k <= 2 ^ (w - GrainBits(w) - 1)
        /\ (v.scalars[i] \div Grain(w)) * 2 ^ k # 2 ^ (w - GrainBits(w) - 1)

MaxRescale == 2

\* The elements of v shifted right are below 2^15, so that their floats
\* (counts of units of 2^-FracBits) and the squares stay below 2^31.
Dequantizable(v) ==
    \A i \in 1..Len(v.scalars) :
        /\ -(2 ^ 15) < ShiftRight(v.scalars[i], v.shift)
        /\ ShiftRight(v.scalars[i], v.shift) < 2 ^ 15

\* The arithmetic of IntNormalize on v stays below 2^31.
Normalizable(w, v) ==
    /\ Dequantizable(v)
    /\ LET n == Len(v.scalars)
           f == [i \in 1..n |-> ShiftRight(v.scalars[i], v.shift)]
           M == SumTo([i \in 1..n |-> f[i] * f[i]], n)
       IN  \A i \in 1..n : Representable(w - 3, f[i], M)

InitInt ==
    /\ width \in IntScalar
    /\ conv = "none"
    /\ dim = 0
    /\ vectors = NoVectors
    /\ loads = 0
    /\ res = Idle

DoAdd ==
    /\ res = Idle
    /\ \E v \in IntVectors(width) : \E u \in Operands(width, v) :
        res' = [op |-> "Add", w |-> width, v |-> v, u |-> u,
                out |-> IntAdd(width, v, u), vAfter |-> v, uAfter |-> u]
    /\ UNCHANGED <<width, conv, dim, vectors, loads>>

DoSubtract ==
    /\ res = Idle
    /\ \E v \in IntVectors(width) : \E u \in Operands(width, v) :
        res' = [op |-> "Subtract", w |-> width, v |-> v, u |-> u,
                out |-> IntSubtract(width, v, u), vAfter |-> v, uAfter |-> u]
    /\ UNCHANGED <<width, conv, dim, vectors, loads>>

DoDot ==
    /\ res = Idle
    /\ \E v \in IntVectors(width) : \E u \in DotOperands(width, v) :
        res' = [op |-> "Dot", w |-> width, v |-> v, u |-> u,
                out |-> IntDot(width, v, u)]
    /\ UNCHANGED <<width, conv, dim, vectors, loads>>

DoMagnitude ==
    /\ res = Idle
    /\ \E v \in IntVectors(width) :
        res' = [op |-> "Magnitude", w |-> width, v |-> v,
                out |-> IntMagnitude(width, v)]
    /\ UNCHANGED <<width, conv, dim, vectors, loads>>

\* Normalize, then Magnitude of what it returned.
DoNormalize ==
    /\ res = Idle
    /\ \E v \in IntVectors(width) : \E nan \in NaNToInt(width) :
        /\ Normalizable(width, v)
        /\ res' = [op |-> "Normalize", w |-> width, v |-> v,
                   out |-> IntNormalize(width, v, nan),
                   mag |-> IntMagnitude(width, IntNormalize(width, v, nan))]
    /\ UNCHANGED <<width, conv, dim, vectors, loads>>

\* v.CosineSimilarity(u), and the same with one operand stored with k more
\* bits (every element times 2^k).
DoCosineSimilarity ==
    /\ res = Idle
    /\ \E v \in IntVectors(width) : \E u \in EqualOperands(width, v) :
       \E k \in 1..MaxRescale, side \in {"v", "u"} :
        LET v2 == IF side = "v" /\ Rescalable(width, v, k) THEN Rescaled(v, k) ELSE v
            u2 == IF side = "u" /\ Rescalable(width, u, k) THEN Rescaled(u, k) ELSE u
        IN  res' = [op |-> "CosineSimilarity", w |-> width, v |-> v, u |-> u,
                    out |-> IntCosineSimilarity(width, v, u),
                    v2 |-> v2, u2 |-> u2,
                    out2 |-> IntCosineSimilarity(width, v2, u2)]
    /\ UNCHANGED <<width, conv, dim, vectors, loads>>

DoDequantizeIntVector ==
    /\ res = Idle
    /\ \E v \in IntVectors(width) :
        /\ Dequantizable(v)
        /\ res' = [op |-> "DequantizeIntVector", w |-> width, v |-> v,
                   out |-> DequantizeIntVector(v).scalars]
    /\ UNCHANGED <<width, conv, dim, vectors, loads>>

NextInt ==
    \/ DoAdd
    \/ DoSubtract
    \/ DoDot
    \/ DoMagnitude
    \/ DoNormalize
    \/ DoCosineSimilarity
    \/ DoDequantizeIntVector
    \/ Return

SpecInt == InitInt /\ [][NextInt]_vars

----------------------------------------------------------------------------
(* Properties of the store, checked under Spec, and of the ranking, checked *)
(* under SpecRank *)

Present(s) == s \in DOMAIN vectors

Count(seq, x) == Cardinality({i \in 1..Len(seq) : seq[i] = x})

\* The similarity of a candidate to the query word of the last call.
SimTo(x) == Similarity(model, res.s, x).sim

\* C1: Similarity(s, t) returns exactly 0.0 whenever s or t (or both) is not
\* a key of the store, in a FloatModel and in an IntModel alike.
C1_SimilarityAbsentIsZero ==
    (res.op = "Similarity" /\ (~Present(res.s) \/ ~Present(res.t)))
        => (~res.panic /\ res.out = Zero)

C1_Witness ==
    /\ res.op = "Similarity"
    /\ Present(res.s) /\ ~Present(res.t)
    /\ dim > 0
    /\ res.out = Zero

\* C2: Vector(word) returns the stored scalars of a word of the store, and
\* for an absent word a vector of Dimensions() zeros, of length 0 on a store
\* that was just created.
C2_VectorOrZeros ==
    res.op = "Vector" =>
        IF Present(res.s) THEN res.out = vectors[res.s].scalars
        ELSE /\ Len(res.out) = Dimensions(model)
             /\ \A i \in 1..Len(res.out) : res.out[i] = 0
             /\ (loads = 0 => res.out = <<>>)

C2_Witness ==
    /\ res.op = "Vector"
    /\ ~Present(res.s)
    /\ dim = 2 /\ VocabularySize(model) = 3
    /\ res.out = <<0, 0>>

\* C3: NNearestIn returns an error and no word list exactly when n = 0 or
\* n > len(candidateWords); for 1 <= n <= len(candidateWords) it returns no
\* error.
C3_NNearestInErrorIffBadN ==
    res.op = "NNearestIn" =>
        /\ res.err <=> (res.n = 0 \/ res.n > Len(res.vocab))
        /\ res.err => res.out = <<>>

C3_Witness ==
    /\ res.op = "NNearestIn"
    /\ res.n = Len(res.vocab) /\ res.n = MaxVocab
    /\ ~res.err /\ ~res.panic
    /\ Len(res.out) = res.n

\* The candidates of the last call left out of its result, as words with
\* more occurrences among the candidates than in the result.
LeftOut == {x \in CandidateWords : Count(res.vocab, x) > Count(res.out, x)}

NNearestInReturned == res.op = "NNearestIn" /\ ~res.err /\ ~res.panic

\* C4 as stated: a successful NNearestIn returns exactly n words, the first n
\* of RankSimilarity, and every returned word has a similarity to the query
\* that is >= the similarity of every candidate occurrence left out.
C4_NearestAtLeastLeftOut ==
    NNearestInReturned =>
        /\ Len(res.out) = res.n
        /\ res.out = SubSeq(RankSimilarity(model, res.s, res.vocab).out, 1, res.n)
        /\ \A i \in 1..Len(res.out) : \A x \in LeftOut :
               Geq(SimTo(res.out[i]), SimTo(x))

\* C4 as amended: a successful NNearestIn returns exactly n words, the first
\* n of RankSimilarity, and no left-out candidate occurrence ranks above a
\* returned word in the order of the sort, where a NaN similarity (a zero
\* vector as query or candidate) ranks below every number.
C4_NearestNotBelowLeftOut ==
    NNearestInReturned =>
        /\ Len(res.out) = res.n
        /\ res.out = SubSeq(RankSimilarity(model, res.s, res.vocab).out, 1, res.n)
        /\ \A i \in 1..Len(res.out) : \A x \in LeftOut :
               Compare(SimTo(res.out[i]), SimTo(x)) >= 0

C4_Witness ==
    /\ NNearestInReturned
    /\ res.n = 2 /\ Len(res.vocab) = 3
    /\ res.out # SubSeq(res.vocab, 1, 2)
    /\ \E x \in LeftOut : SimTo(x).nan
    /\ \A i \in 1..2 : ~SimTo(res.out[i]).nan
    /\ Less(SimTo(res.out[2]), SimTo(res.out[1]))

RankSimilarityReturned == res.op = "RankSimilarity" /\ ~res.panic

\* C5: RankSimilarity returns a permutation of candidateWords: same length,
\* every word as many times as in the input, absent candidates included.
C5_RankIsPermutation ==
    RankSimilarityReturned =>
        /\ Len(res.out) = Len(res.vocab)
        /\ \A x \in CandidateWords : Count(res.out, x) = Count(res.vocab, x)

C5_Witness ==
    /\ RankSimilarityReturned
    /\ Len(res.vocab) = 3
    /\ res.out # res.vocab
    /\ \E x \in CandidateWords : Count(res.vocab, x) = 2 /\ Count(res.out, x) = 2
    /\ \E x \in CandidateWords : ~Present(x) /\ Count(res.out, x) = 1
    /\ Present(res.s)

\* C6 as stated: along the output of RankSimilarity the similarity to the
\* query word is non-increasing: Similarity(query, out[i]) >=
\* Similarity(query, out[j]) for all positions i < j.
C6_RankNonIncreasing ==
    RankSimilarityReturned =>
        \A i \in 1..Len(res.out) : \A j \in 1..Len(res.out) :
            i < j => Geq(SimTo(res.out[i]), SimTo(res.out[j]))

\* C6 as amended: the output of RankSimilarity is non-increasing in the
\* order of cmp.Compare, in which a NaN similarity (a zero vector as query
\* or candidate) is below every number and equal to another NaN; so
\* Similarity(query, out[i]) >= Similarity(query, out[j]) holds for i < j
\* whenever neither similarity is NaN.
C6_RankNonIncreasingNaNLast ==
    RankSimilarityReturned =>
        \A i \in 1..Len(res.out) : \A j \in 1..Len(res.out) :
            i < j =>
                /\ Compare(SimTo(res.out[i]), SimTo(res.out[j])) >= 0
                /\ (~SimTo(res.out[i]).nan /\ ~SimTo(res.out[j]).nan)
                       => Geq(SimTo(res.out[i]), SimTo(res.out[j]))

C6_Witness ==
    /\ RankSimilarityReturned
    /\ Len(res.out) = 3
    /\ res.out # res.vocab
    /\ Less(SimTo(res.out[2]), SimTo(res.out[1]))
    /\ SimTo(res.out[3]).nan

----------------------------------------------------------------------------
(* Properties of the codec, checked under SpecQuant *)

\* C7: QuantizationShift for a width w in {8, 16, 32} and a strictly
\* positive maxMagnitude returns w - ceil(log2(maxMagnitude)) - 3; width 8
\* with bound 3.0 gives 3.
C7_ShiftIsWidthMinusLogMinus3 ==
    (res.op = "QuantizationShift" /\ res.maxMagnitude > 0) =>
        /\ res.out = res.w - CeilLog2(res.maxMagnitude) - 3
        /\ (res.w = 8 /\ res.maxMagnitude = 3 * Unit) => res.out = 3

\* v_i * 2^shift truncated toward zero, for element i of the last call.
Truncated(i) == TruncDiv(res.v[i] * 2 ^ res.shift, Unit)

WithinPrecision(x, shift) ==
    IF shift > FracBits THEN x = 0 ELSE Abs(x) * 2 ^ shift <= Unit

\* C9: for a float vector whose elements all satisfy |x| <= maxMagnitude,
\* quantizing at shift = QuantizationShift(width, maxMagnitude) and then
\* dequantizing returns each element within 2^-shift of the original.
C9_RoundTripWithinPrecision ==
    (/\ res.op = "QuantizeDequantize"
     /\ \A i \in 1..Len(res.v) : Abs(res.v[i]) <= res.maxMagnitude) =>
        \A i \in 1..Len(res.v) : WithinPrecision(res.out[i] - res.v[i], res.shift)

\* C10: QuantizeFloatVector[int8] on [5, 1, -9, 12] with second argument 15
\* returns [10, 2, -18, 24] with shift 1, and QuantizeFloatVector[int16]
\* returns [2560, 512, -4608, 6144] with shift 9.
C10_TestQuantization ==
    (res.op = "QuantizeFloatVector" /\ res.v = TestVector /\ res.shift = 15) =>
        /\ res.w = 8 => res.out = [scalars |-> <<10, 2, -18, 24>>, shift |-> 1]
        /\ res.w = 16 => res.out = [scalars |-> <<2560, 512, -4608, 6144>>, shift |-> 9]

\* The elements of the last call's vector are whole numbers that fit the
\* target width once scaled by 2^shift.
WholeAndFits ==
    \A i \in 1..Len(res.v) :
        /\ res.v[i] % Unit = 0
        /\ InRange(res.w, (res.v[i] \div Unit) * 2 ^ res.shift)

\* C11: for a vector of whole numbers that fit the target width after
\* scaling, DequantizeIntVector(QuantizeFloatVector(v, shift)) equals v
\* exactly, for int8 and int16 and for negative and positive elements.
C11_WholeNumbersRoundTrip ==
    (res.op = "RoundTrip" /\ WholeAndFits) => res.out = res.v

C11_Witness ==
    /\ res.op = "RoundTrip"
    /\ res.w = 16 /\ res.v = TestVector /\ res.shift = 6
    /\ res.q.scalars = <<320, 64, -576, 768>>
    /\ res.out = TestVector

----------------------------------------------------------------------------
(* Properties of the bulk loads, checked under Spec *)

IsLoad == res.op \in {"FromPlainFile", "FromBinaryFile"}

\* The last load was given the one float64 a fixed-point load asks for.
OptsAccepted == Len(res.opts) = 1 /\ res.opts[1].float64

\* The shift of the last load, a fixed-point load with accepted opts.
ShiftOfLoad == IF width = 0 THEN 0 ELSE QuantizationShift(width, res.opts[1].val)

\* The lines of the last plaintext load that are records.
PlainRecords == IF res.desc THEN Tail(res.file.lines) ELSE res.file.lines

\* The last plaintext load got as far as reading records.
ReadsPlainRecords ==
    /\ res.op = "FromPlainFile"
    /\ res.file.exists
    /\ (width # 0 => OptsAccepted)
    /\ IF res.desc
           THEN LET sc == Fscanln(res.file.lines)
                IN  ~sc.err /\ sc.n >= (IF width = 0 THEN 2 ELSE 3)
           ELSE res.file.lines # <<>> /\ Len(Head(res.file.lines)) > 1

\* A record of d values, each a number.
WellFormed(line, d) ==
    /\ Len(line) - 1 = d
    /\ \A i \in 2..Len(line) : line[i].num

ValuesOf(line) == [i \in 1..(Len(line) - 1) |-> line[i + 1].val]

\* vecs after the insertion of the first n of the records, in order.
RECURSIVE Inserted(_, _, _)
Inserted(vecs, recs, n) ==
    IF n = 0 THEN vecs
    ELSE Put(Inserted(vecs, recs, n - 1), recs[n][1].s,
             Stored(width, ValuesOf(recs[n]), ShiftOfLoad))

\* Record k is the first whose value count differs from d, and the records
\* before it are well formed.
IsFirstMismatch(recs, d, k) ==
    /\ Len(recs[k]) - 1 # d
    /\ \A j \in 1..(k - 1) : WellFormed(recs[j], d)

\* C12: in a plaintext bulk load the first record whose value count differs
\* from Dimensions() makes the load return an error; the records parsed
\* before it stay in the store and no record after it is inserted.
C12_MismatchFailsLoad ==
    ReadsPlainRecords =>
        \A k \in 1..Len(PlainRecords) :
            IsFirstMismatch(PlainRecords, dim, k) =>
                /\ res.err
                /\ vectors = Inserted(res.before.vectors, PlainRecords, k - 1)

\* The file of the last plaintext load has a description line that does not
\* scan, a token that is not a number or a record with the wrong number of
\* values.
PlainParseFailure ==
    IF res.desc
        THEN LET sc == Fscanln(res.file.lines)
             IN  \/ sc.err
                 \/ \E k \in 2..Len(res.file.lines) :
                        ~WellFormed(res.file.lines[k], sc.dim)
        ELSE \/ res.file.lines = <<>>
             \/ \E k \in 1..Len(res.file.lines) :
                    ~WellFormed(res.file.lines[k], Len(Head(res.file.lines)) - 1)

\* The file of the last binary load has a description line that does not
\* scan or a record with too few bytes.
BinaryParseFailure ==
    LET sc == Fscanln(res.file.lines)
    IN  \/ sc.err
        \/ \E k \in 1..Len(res.file.records) : Len(res.file.records[k].vals) < sc.dim

\* C13: every parse failure during a bulk load, plaintext or binary (a
\* malformed header, a token that is not a number, a record with too few
\* values or too few bytes), is returned to the caller as an error.
C13_ParseFailureIsReturned ==
    (/\ IsLoad
     /\ res.file.exists
     /\ (width # 0 => OptsAccepted)
     /\ IF res.op = "FromPlainFile" THEN PlainParseFailure ELSE BinaryParseFailure)
        => res.err

\* C14: a fixed-point bulk load (FromPlainFile or FromBinaryFile on an
\* IntModel) called with maxMagnitude <= 0 fails with an error and inserts no
\* entry.
C14_NonPositiveMagnitudeFails ==
    (IsLoad /\ width # 0 /\ OptsAccepted /\ res.opts[1].val <= 0) =>
        /\ res.err
        /\ vectors = res.before.vectors

\* What the last load, on a FloatModel, gives when it is called without opts.
FloatLoadWithoutOpts ==
    IF res.op = "FromPlainFile"
        THEN FromPlainFile(0, res.before, res.file, res.desc, <<>>)
        ELSE FromBinaryFile(0, res.before, res.file, res.bitSize, <<>>)

\* C15: a fixed-point load called without exactly one extra argument, or
\* with one that is not a float64, returns an error and leaves the store's
\* dimension and entries as they were; a float load gives the same outcome
\* whatever extra arguments it is passed.
C15_BadOptsFailBeforeReading ==
    IsLoad =>
        /\ (width # 0 /\ ~OptsAccepted) =>
               /\ res.err
               /\ dim = res.before.dim
               /\ vectors = res.before.vectors
        /\ width = 0 =>
               /\ dim = FloatLoadWithoutOpts.dim
               /\ vectors = FloatLoadWithoutOpts.vectors
               /\ res.err = FloatLoadWithoutOpts.err

C15_Witness ==
    /\ res.op = "FromPlainFile"
    /\ width # 0
    /\ Len(res.opts) = 1 /\ ~res.opts[1].float64
    /\ res.file.exists /\ res.file.lines = <<Cat2, Dog1>> /\ ~res.desc
    /\ res.before.dim = 2 /\ DOMAIN res.before.vectors # {}
    /\ res.err
    /\ dim = 2 /\ vectors = res.before.vectors

\* The last load was a plaintext load with desc = true of a file whose first
\* line is a well-formed description and whose other lines are records of
\* that dimension.
DescribedFileLoaded ==
    /\ res.op = "FromPlainFile"
    /\ res.desc
    /\ res.file.exists
    /\ (width # 0 => OptsAccepted)
    /\ ~Fscanln(res.file.lines).err
    /\ \A k \in 2..Len(res.file.lines) :
           WellFormed(res.file.lines[k], Fscanln(res.file.lines).dim)

\* C16: loading a plaintext file with desc = true whose first line is a
\* well-formed "<vocabularySize> <dimension>" succeeds, sets Dimensions() to
\* that dimension and inserts the records that follow, for float stores and
\* for fixed-point stores alike.
C16_DescribedLoadSucceeds ==
    DescribedFileLoaded =>
        /\ ~res.err
        /\ dim = Fscanln(res.file.lines).dim
        /\ vectors = Inserted(res.before.vectors, Tail(res.file.lines),
                               Len(res.file.lines) - 1)

\* C17: after any sequence of bulk loads on one store, successful or failed,
\* every stored vector has exactly Dimensions() elements, and the dimension
\* fixed by an earlier load is not changed by a later load.
C17_OneDimension ==
    /\ \A word \in DOMAIN vectors : Len(vectors[word].scalars) = Dimensions(model)
    /\ (IsLoad /\ res.before.dim # 0) => dim = res.before.dim

\* The words whose entry the last load inserted or replaced.
InsertedByLoad ==
    {word \in DOMAIN vectors :
        word \notin DOMAIN res.before.vectors \/ vectors[word] # res.before.vectors[word]}

\* C18: after a fixed-point bulk load with bound maxMagnitude, every vector
\* inserted by that load carries the same shift, QuantizationShift(width,
\* maxMagnitude).
C18_OneShiftPerLoad ==
    (IsLoad /\ width # 0 /\ OptsAccepted) =>
        \A word \in InsertedByLoad :
            vectors[word].shift = QuantizationShift(width, res.opts[1].val)

C18_Witness ==
    /\ IsLoad /\ width # 0 /\ OptsAccepted
    /\ ~res.err
    /\ Cardinality(InsertedByLoad) >= 2
    /\ \A word \in InsertedByLoad : vectors[word].shift = 1
    /\ \E word \in DOMAIN vectors \ InsertedByLoad : vectors[word].shift = 4

\* C20: Similarity(s, t) equals Similarity(t, s) for every pair of words, as
\* CosineSimilarity(v, u) equals CosineSimilarity(u, v) on the stored vectors,
\* in a FloatModel and in an IntModel; equal is read as the same number, or
\* NaN on both sides.
C20_SimilarityIsSymmetric ==
    res.op = "Similarity" =>
        /\ ~res.panic
        /\ Similarity(model, res.t, res.s) = [panic |-> FALSE, sim |-> res.out]

\* The last plaintext load read every record of its file.
WholeFileLoaded ==
    /\ ReadsPlainRecords
    /\ \A k \in 1..Len(PlainRecords) : WellFormed(PlainRecords[k], dim)

WordsOfLoad == {PlainRecords[k][1].s : k \in 1..Len(PlainRecords)}

\* The last record of the file for a word.
LastRecordOf(word) ==
    LET ks == {k \in 1..Len(PlainRecords) : PlainRecords[k][1].s = word}
    IN  PlainRecords[CHOOSE k \in ks : \A j \in ks : j <= k]

\* C22: across bulk loads VocabularySize() never decreases and equals the
\* number of distinct words inserted so far; a record whose word is already
\* present replaces that word's vector (the last record wins) without adding
\* an entry.
C22_VocabularyGrows ==
    IsLoad =>
        /\ DOMAIN res.before.vectors \subseteq DOMAIN vectors
        /\ VocabularySize(model) >= VocabularySize(res.before)
        /\ WholeFileLoaded =>
               /\ VocabularySize(model)
                      = Cardinality(DOMAIN res.before.vectors \cup WordsOfLoad)
               /\ \A word \in WordsOfLoad :
                      /\ word \in DOMAIN vectors
                      /\ vectors[word]
                             = Stored(width, ValuesOf(LastRecordOf(word)), ShiftOfLoad)

C22_Witness ==
    /\ WholeFileLoaded
    /\ res.file.lines = <<Cat10, Dog11, Cat11>>
    /\ "cat" \in DOMAIN res.before.vectors
    /\ "road" \in DOMAIN res.before.vectors
    /\ res.before.vectors["cat"] # vectors["cat"]
    /\ VocabularySize(res.before) = 3
    /\ VocabularySize(model) = 3

\* The operations that read the store.
Lookups == {"Vector", "Dimensions", "VocabularySize", "Similarity",
            "RankSimilarity", "NNearestIn"}

\* C21: Vector, Dimensions, VocabularySize, Similarity, RankSimilarity and
\* NNearestIn leave the store as it was (a lookup or a score of an absent
\* word does not add it, VocabularySize stays the same), and the candidate
\* list passed to a ranking is the same list in the same order afterwards.
C21_LookupsLeaveStore ==
    [][(res = Idle /\ res'.op \in Lookups) =>
          /\ vectors' = vectors
          /\ dim' = dim
          /\ VocabularySize([dim |-> dim', vectors |-> vectors']) = VocabularySize(model)
          /\ (res'.op \in {"RankSimilarity", "NNearestIn"} => res'.list = res'.vocab)]_vars

C21_Witness ==
    /\ res.op = "RankSimilarity" /\ ~res.panic
    /\ Len(res.vocab) = 3
    /\ res.out # res.vocab
    /\ res.list = res.vocab
    /\ \E i \in 1..3 : ~Present(res.vocab[i])
    /\ VocabularySize(model) = 3

----------------------------------------------------------------------------
(* Properties of the callers' view of the store, checked under SpecAlias *)

\* C19: the store cannot be changed through what a lookup returns: after a
\* caller writes into the vector returned by Vector(word) for a word that is
\* present, Vector(word) and every Similarity involving that word give what
\* they gave before the write.
C19_ReturnedVectorIsACopy ==
    (res.op = "Write" /\ Present(res.s)) =>
        /\ Vector(model, res.s) = res.held
        /\ \A t \in QueryWords :
               /\ Similarity(model, res.s, t) = Similarity(res.before, res.s, t)
               /\ Similarity(model, t, res.s) = Similarity(res.before, t, res.s)

----------------------------------------------------------------------------
(* The headroom of the quantization, checked under SpecQuant *)

----------------------------------------------------------------------------
(* Properties of the fixed-point vector algebra, checked under SpecInt *)

\* n is the floor of e / 2^s, for e of at most 32 bits.
IsFloor(n, e, s) ==
    IF s >= 31 THEN n = (IF e < 0 THEN -1 ELSE 0)
    ELSE n * 2 ^ s <= e /\ e - n * 2 ^ s < 2 ^ s

\* n is e / 2^s truncated toward zero, for e of at most 32 bits.
IsTruncation(n, e, s) ==
    IF s >= 32 THEN n = 0
    ELSE IF e >= 0 THEN IsFloor(n, e, s)
    ELSE n * 2 ^ s >= e /\ n * 2 ^ s < e + 2 ^ s

IsWrapOf(w, r, t) ==
    /\ InRange(w, r)
    /\ r % Grain(w) = 0
    /\ ((r \div Grain(w)) - t) % (2 ^ (w - GrainBits(w))) = 0

\* C29: fixed-point Add and Subtract return a new vector with the receiver's
\* length and shift whose i-th element is v_i + u_i (respectively v_i - u_i)
\* reduced with the two's-complement wraparound of the element width, never
\* saturated, and the two operands are not modified.
C29_AddSubtractWrap ==
    (res.op \in {"Add", "Subtract"} /\ ~res.out.panic) =>
        /\ Len(res.out.scalars) = Len(res.v.scalars)
        /\ res.out.shift = res.v.shift
        /\ \A i \in 1..Len(res.v.scalars) :
              LET a == res.v.scalars[i] \div Grain(res.w)
                  b == res.u.scalars[i] \div Grain(res.w)
              IN  IsWrapOf(res.w, res.out.scalars[i],
                           IF res.op = "Add" THEN a + b ELSE a - b)
        /\ res.vAfter = res.v
        /\ res.uAfter = res.u

C29_Witness ==
    /\ res.op = "Add"
    /\ res.w = 8
    /\ res.v = [scalars |-> <<100>>, shift |-> 5]
    /\ res.u = [scalars |-> <<100, -3>>, shift |-> 31]
    /\ res.out = [panic |-> FALSE, scalars |-> <<-56>>, shift |-> 5]

\* The sum of the products of the elements of v and u, in units of
\* 2^(2 * GrainBits(w)), as an integer of any size.
ExactDot(w, v, u) ==
    SumTo([i \in 1..Len(v.scalars) |-> Product(w, v.scalars[i], u.scalars[i])],
          Len(v.scalars))

\* C26: for fixed-point vectors v and u of equal length, Dot returns
\* (sum of v_i * u_i) / 2^(shift_v + shift_u), the dot product of the real
\* values the two vectors represent, for every shift the vectors can carry;
\* {3, 4} and {-4, 5} both stored at shift 5 give 8.
C26_DotIsRealDotProduct ==
    (res.op = "Dot" /\ Len(res.u.scalars) = Len(res.v.scalars)
                    /\ FitsInt64(res.w, ExactDot(res.w, res.v, res.u))) =>
        /\ res.out.scale = "positive"
        /\ res.out.shift = res.v.shift + res.u.shift
        /\ res.out.w = ExactDot(res.w, res.v, res.u)
        /\ (res.w = 16 /\ res.v = [scalars |-> <<96, 128>>, shift |-> 5]
                       /\ res.u = [scalars |-> <<-128, 160>>, shift |-> 5])
              => (res.out.w = 8 * 2 ^ 10 /\ res.out.shift = 10)

\* The same for the shifts whose sum is below 63, where the scale
\* int64(1) << (shift_v + shift_u) is the power of two.
C26_DotBelowShift63 ==
    (res.op = "Dot" /\ res.v.shift + res.u.shift < 63
                    /\ FitsInt64(res.w, ExactDot(res.w, res.v, res.u)))
        => C26_DotIsRealDotProduct

\* Two int32 vectors stored at shift 32: the scale is int64(1) << 64 = 0.
C26_ZeroScaleReached ==
    /\ res.op = "Dot" /\ res.w = 32
    /\ res.v = [scalars |-> <<16 * Grain(32)>>, shift |-> 32]
    /\ res.u = [scalars |-> <<16 * Grain(32)>>, shift |-> 32]
    /\ res.out.scale = "zero"
    /\ res.out.w = 256

\* C27: the 64-bit signed accumulation of element products in fixed-point
\* Dot, Magnitude and CosineSimilarity never overflows, for vectors of every
\* supported element width and every dimension a store can hold: each
\* accumulator ends as the exact sum.
C27_AccumulationNeverOverflows ==
    /\ res.op = "Dot" => res.out.w = ExactDot(res.w, res.v, res.u)
    /\ res.op = "Magnitude" => res.out.m = ExactDot(res.w, res.v, res.v)
    /\ res.op = "CosineSimilarity" =>
          /\ res.out.d = ExactDot(res.w, res.v, res.u)
          /\ res.out.mV = ExactDot(res.w, res.v, res.v)
          /\ res.out.mU = ExactDot(res.w, res.u, res.u)

\* The same for 8- and 16-bit elements, whose products are below 2^30.
C27_NarrowAccumulationFits ==
    (res.op \in {"Dot", "Magnitude", "CosineSimilarity"} /\ res.w \in {8, 16})
        => C27_AccumulationNeverOverflows

\* Magnitude of the int32 vector {-2^31, -2^31}: 2^62 + 2^62 wraps to -2^63.
C27_OverflowReached ==
    /\ res.op = "Magnitude" /\ res.w = 32
    /\ res.v.scalars = <<MinInt(32), MinInt(32)>>
    /\ ExactDot(32, res.v, res.v) = 2 ^ 11
    /\ res.out.m = -(2 ^ 11)

\* Two results of CosineSimilarity are the same float.
SameSimilarity(x, y) ==
    /\ x.kind = y.kind
    /\ x.kind = "num" => Key(x) = Key(y)
    /\ x.kind = "inf" => (x.d < 0) = (y.d < 0)

\* The cosine of the real-valued vectors v and u.
ExactCosine(w, v, u) ==
    LET d == ExactDot(w, v, u)
        p == ExactDot(w, v, v) * ExactDot(w, u, u)
    IN  [kind |-> IF p = 0 THEN "nan" ELSE "num", d |-> d, p |-> p]

\* C28: fixed-point CosineSimilarity equals the cosine of the real-valued
\* vectors and does not depend on the shift: multiplying all elements of
\* either operand by a power of two leaves the result unchanged; {3, 4}
\* stored at shift 5 against the unshifted {-3, -6} gives -0.98386991 (the
\* number whose square is 121 / 125).
C28_CosineIsShiftIndependent ==
    res.op = "CosineSimilarity" =>
        /\ SameSimilarity(res.out, ExactCosine(res.w, res.v, res.u))
        /\ SameSimilarity(res.out2, res.out)
        /\ (res.w = 16 /\ res.v.scalars = <<96, 128>> /\ res.u.scalars = <<-3, -6>>)
              => (res.out.kind = "num" /\ Key(res.out) = [n |-> -121, m |-> 125])

\* Every accumulator of the two calls ends as the exact sum.
NoAccumulatorOverflowed ==
    /\ res.out.d = ExactDot(res.w, res.v, res.u)
    /\ res.out.mV = ExactDot(res.w, res.v, res.v)
    /\ res.out.mU = ExactDot(res.w, res.u, res.u)
    /\ res.out2.d = ExactDot(res.w, res.v2, res.u2)
    /\ res.out2.mV = ExactDot(res.w, res.v2, res.v2)
    /\ res.out2.mU = ExactDot(res.w, res.u2, res.u2)

\* The same where no accumulator overflows.
C28_ShiftIndependentWithoutOverflow ==
    (res.op = "CosineSimilarity" /\ NoAccumulatorOverflowed)
        => C28_CosineIsShiftIndependent

\* int32 {-2^30, -2^30} against itself gives 1; with the second operand
\* doubled to {-2^31, -2^31} its squared magnitude wraps and the result is NaN.
C28_DivergenceReached ==
    /\ res.op = "CosineSimilarity" /\ res.w = 32
    /\ res.v.scalars = <<-16 * Grain(32), -16 * Grain(32)>>
    /\ res.u.scalars = <<-16 * Grain(32), -16 * Grain(32)>>
    /\ res.u2.scalars = <<MinInt(32), MinInt(32)>>
    /\ res.out.kind = "num" /\ Key(res.out) = [n |-> 1, m |-> 1]
    /\ res.out2.kind = "nan"

\* The call of TestIntVectors and a rescaled second operand.
C28_TestReached ==
    /\ res.op = "CosineSimilarity" /\ res.w = 16
    /\ res.v = [scalars |-> <<96, 128>>, shift |-> 5]
    /\ res.u = [scalars |-> <<-3, -6>>, shift |-> 5]
    /\ res.u2.scalars = <<-12, -24>>
    /\ Key(res.out2) = [n |-> -121, m |-> 125]

\* The greatest common divisor of the first n elements of f, in grains.
RECURSIVE GcdTo(_, _, _)
GcdTo(w, f, n) ==
    IF n = 0 THEN 0
    ELSE LET e == f[n] \div Grain(w)
         IN  Gcd(GcdTo(w, f, n - 1), IF e < 0 THEN -e ELSE e)

\* The elements of v divided by their greatest common divisor: a vector of
\* the same direction.
Reduced(w, v) ==
    LET n == Len(v.scalars)
        g == GcdTo(w, v.scalars, n)
    IN  [i \in 1..n |-> IF g = 0 THEN 0 ELSE (v.scalars[i] \div Grain(w)) \div g]

SquaredLength(f) == SumTo([i \in 1..Len(f) |-> f[i] * f[i]], Len(f))

\* C23: IntVector.Normalize returns a vector whose shift is the element width
\* minus 3 whatever the shift of the input, with elements equal to the
\* normalized real components times 2^(width - 3) truncated toward zero; the
\* vector {3, 4} stored at shift 5 in 16-bit elements gives {4915, 6553} at
\* shift 13.
C23_NormalizeScalesRealComponents ==
    res.op = "Normalize" =>
        /\ res.out.shift = res.w - 3
        /\ Len(res.out.scalars) = Len(res.v.scalars)
        /\ LET f == Reduced(res.w, res.v)
               M == SquaredLength(f)
           IN  \A i \in 1..Len(f) :
                  (M # 0 /\ Representable(res.w - 3, f[i], M)) =>
                      res.out.scalars[i] = NormalizedScalar(res.w - 3, f[i], M)
        /\ (res.w = 16 /\ res.v = [scalars |-> <<96, 128>>, shift |-> 5])
              => res.out = [scalars |-> <<4915, 6553>>, shift |-> 13]

\* The shift of the result and the example, which the code meets.
C23_ShiftIsWidthMinus3 ==
    res.op = "Normalize" =>
        /\ res.out.shift = res.w - 3
        /\ res.out.shift \in {5, 13, 29}
        /\ Len(res.out.scalars) = Len(res.v.scalars)
        /\ (res.w = 16 /\ res.v = [scalars |-> <<96, 128>>, shift |-> 5])
              => res.out = [scalars |-> <<4915, 6553>>, shift |-> 13]

\* int8 {3, 100} at shift 5 stands for {0.09375, 3.125}; its dequantization
\* is {0, 3} and Normalize returns {0, 32} where the normalized components
\* times 32 are {0.96, 31.98}.
C23_DivergenceReached ==
    /\ res.op = "Normalize" /\ res.w = 8
    /\ res.v = [scalars |-> <<3, 100>>, shift |-> 5]
    /\ res.out = [scalars |-> <<0, 32>>, shift |-> 5]
    /\ NormalizedScalar(5, 100, 10009) = 31

C23_TestReached ==
    /\ res.op = "Normalize" /\ res.w = 16
    /\ res.v = [scalars |-> <<96, 128>>, shift |-> 5]
    /\ res.out = [scalars |-> <<4915, 6553>>, shift |-> 13]

\* C24: for every fixed-point vector v with Magnitude(v) # 0, at any shift
\* and any supported element width, Normalize(v) is a vector whose Magnitude
\* is 1 up to the quantization error of the result's shift (one unit of
\* 2^-(width - 3) for each element, rounded up to a whole grain).
C24_NormalizedMagnitudeIsOne ==
    (res.op = "Normalize" /\ \E i \in 1..Len(res.v.scalars) : res.v.scalars[i] # 0) =>
        LET one == 2 ^ (res.w - 3 - GrainBits(res.w))
            tol == (Len(res.v.scalars) + Grain(res.w) - 1) \div Grain(res.w)
        IN  /\ res.mag.scale = "positive"
            /\ res.mag.shift = 2 * (res.w - 3)
            /\ res.mag.unit = 2 * GrainBits(res.w)
            /\ (one - tol) * (one - tol) <= res.mag.m
            /\ res.mag.m <= (one + tol) * (one + tol)

\* The same for the vectors with an element of at least 1.0 in magnitude.
C24_UnitMagnitudeOfWholeVectors ==
    (res.op = "Normalize" /\ \E i \in 1..Len(res.v.scalars) :
                                 ShiftRight(res.v.scalars[i], res.v.shift) # 0)
        => C24_NormalizedMagnitudeIsOne

\* int16 {3, 3} at shift 5 stands for {0.09375, 0.09375}: it dequantizes to
\* the zero vector and Normalize returns the conversions of NaN.
C24_DivergenceReached ==
    /\ res.op = "Normalize" /\ res.w = 16
    /\ res.v = [scalars |-> <<3, 3>>, shift |-> 5]
    /\ res.out = [scalars |-> <<0, 0>>, shift |-> 13]
    /\ res.mag.m = 0

====
